---- MODULE Spec2Model ----
(***************************************************************************)
(* The quiz backend of swanzaa-backend: the student-quiz routes            *)
(* (GET /total, GET /:date/:level, POST /answer), the quiz CRUD routes and *)
(* the leaderboard routes, over the two collections they share:           *)
(* Quiz (questions of a (date, level) bucket) and StudentQuizProgress.     *)
(*                                                                         *)
(* Every `await` of a handler is one atomic store operation and one step   *)
(* of the model; the synchronous code that follows an await belongs to     *)
(* the same step.  Strings that the code inspects character by character   *)
(* (the level) are sequences of one-character strings.                     *)
(***************************************************************************)
EXTENDS Integers, Sequences, FiniteSets, TLC

VARIABLES
    quiz,       \* the Quiz collection: a set of [id, date, level]
    store,      \* the StudentQuizProgress collection, in insertion order
    quizLevel,  \* the level string of the bucket the behaviour works on
    pc,         \* per request slot: the await the handler stands at
    req,        \* per request slot: the request (req.user, req.body / req.params / req.query)
    loc,        \* per request slot: the handler's local variables
    resp,       \* per request slot: the last response sent
    nreq,       \* requests started so far
    nquiz       \* quiz CRUD operations done so far

vars == <<quiz, store, quizLevel, pc, req, loc, resp, nreq, nquiz>>

-----------------------------------------------------------------------------
(* Bounds *)

MaxRequests == 3   \* requests started in one behaviour
MaxQuizOps  == 1   \* quiz create/delete operations in one behaviour
MaxPrior    == 3   \* wrong attempts already stored for q1 when the behaviour starts
MaxPageReq  == 3   \* largest page / perPage number a leaderboard request asks for

-----------------------------------------------------------------------------
(* Strings *)

UpperChars == <<"A","B","C","D","E","F","G","H","I","J","K","L","M",
                "N","O","P","Q","R","S","T","U","V","W","X","Y","Z">>
LowerChars == <<"a","b","c","d","e","f","g","h","i","j","k","l","m",
                "n","o","p","q","r","s","t","u","v","w","x","y","z">>

ToLowerChar(c) ==
    IF \E i \in 1..26 : UpperChars[i] = c
    THEN LowerChars[CHOOSE i \in 1..26 : UpperChars[i] = c]
    ELSE c

\* String.prototype.toLowerCase
ToLowerCase(s) == [i \in 1..Len(s) |-> ToLowerChar(s[i])]

\* String.prototype.includes
Includes(s, sub) ==
    \E i \in 0..(Len(s) - Len(sub)) :
        \A j \in 1..Len(sub) : s[i + j] = sub[j]

StrBeginner     == <<"b","e","g","i","n","n","e","r">>
StrIntermediate == <<"i","n","t","e","r","m","e","d","i","a","t","e">>
StrAdvance      == <<"a","d","v","a","n","c","e">>
StrAdvanced     == <<"a","d","v","a","n","c","e","d">>
StrBegin        == <<"b","e","g","i","n">>
StrInter        == <<"i","n","t","e","r">>

\* The level strings requests carry: exact names, other letter cases, a name
\* that only contains a recognised word, and an unrecognised one.
Levels ==
    { StrBeginner,
      <<"I","n","t","e","r","m","e","d","i","a","t","e">>,
      <<"A","D","V","A","N","C","E">>,
      StrAdvanced,
      <<"b","e","g","i","n","n","e","r","s">>,
      <<"e","x","p","e","r","t">> }

-----------------------------------------------------------------------------
(* Values *)

Students == {"s1", "s2", "s3", "s4"}
\* the student whose requests the quiz specifications follow
Requesters == {"s1"}
TheDate  == "2024-01-01"
QIds     == {"q1", "q2"}
Procs    == {"p1", "p2"}

\* A request field that is absent (undefined) or empty: falsy in JavaScript.
NoStr   == ""
NoLevel == <<>>
\* req.body.isCorrect as sent: a boolean, or absent
IsCorrectVals == {"true", "false", "undefined"}
Truthy(v) == v = "true"

NoDoc ==
    [id |-> 0, studentId |-> NoStr, date |-> NoStr, level |-> NoLevel,
     answers |-> <<>>, totalDiamonds |-> 0, completed |-> FALSE]

NoReq ==
    [kind |-> "none", userId |-> NoStr, questionId |-> NoStr, date |-> NoStr,
     level |-> NoLevel, isCorrect |-> "undefined",
     page |-> [t |-> "absent", n |-> 0], perPage |-> [t |-> "absent", n |-> 0],
     focus |-> FALSE]

NoLoc ==
    [progress |-> NoDoc, afterProgress |-> NoDoc, questions |-> {},
     attemptsNow |-> 0, diamonds |-> 0, totalDiamonds |-> 0,
     totalQuestions |-> 0, completed |-> FALSE]

NoResp == [kind |-> "none", status |-> 0]

Min(S) == CHOOSE x \in S : \A y \in S : x <= y

RECURSIVE SumEarned(_)
\* answers.reduce((sum, a) => sum + Number(a.earnedDiamonds || 0), 0)
SumEarned(answers) ==
    IF answers = <<>> THEN 0
    ELSE answers[1].earnedDiamonds + SumEarned(Tail(answers))

\* answers.filter((a) => !!a.isCorrect).length
CorrectCount(answers) == Cardinality({i \in 1..Len(answers) : answers[i].isCorrect})

-----------------------------------------------------------------------------
(* Store operations *)

Matches(doc, u, d, l) == doc.studentId = u /\ doc.date = d /\ doc.level = l

\* StudentQuizProgress.findOne({studentId, date, level}): the index of the
\* first matching document, 0 when there is none
FindOne(st, u, d, l) ==
    LET I == {i \in 1..Len(st) : Matches(st[i], u, d, l)}
    IN  IF I = {} THEN 0 ELSE Min(I)

FoundDoc(st, u, d, l) ==
    IF FindOne(st, u, d, l) = 0 THEN NoDoc ELSE st[FindOne(st, u, d, l)]

\* StudentQuizProgress.create({studentId, date, level, answers: [],
\* totalDiamonds: 0, completed: false})
NewDoc(st, u, d, l) ==
    [id |-> Len(st) + 1, studentId |-> u, date |-> d, level |-> l,
     answers |-> <<>>, totalDiamonds |-> 0, completed |-> FALSE]

\* progress.answers.some((a) => String(a.questionId) === String(questionId))
HasEntry(doc, q) == \E i \in 1..Len(doc.answers) : doc.answers[i].questionId = q

\* the index of the first entry of the question, 0 when there is none
\* (Array.prototype.find, and the positional operator $ of an update)
EntryIndex(doc, q) ==
    LET I == {i \in 1..Len(doc.answers) : doc.answers[i].questionId = q}
    IN  IF I = {} THEN 0 ELSE Min(I)

NewEntry(q) ==
    [questionId |-> q, attempts |-> 0, earnedDiamonds |-> 0, isCorrect |-> FALSE]

\* progress.answers.push({...}); await progress.save(): the save of a
\* document whose only change is a pushed subdocument sends
\* $push on that one document, found by its _id
SavePush(st, id, q) ==
    [i \in 1..Len(st) |->
        IF st[i].id = id
        THEN [st[i] EXCEPT !.answers = Append(@, NewEntry(q))]
        ELSE st[i]]

\* the first document that matches the triple and holds an entry of the question
FindWithEntry(st, u, d, l, q) ==
    LET I == {i \in 1..Len(st) : Matches(st[i], u, d, l) /\ HasEntry(st[i], q)}
    IN  IF I = {} THEN 0 ELSE Min(I)

\* IncAttempts on every entry of the record ("answers.$[].attempts")
IncAttemptsAll(st, u, d, l, q) ==
    LET k == FindWithEntry(st, u, d, l, q)
    IN  IF k = 0 THEN st
        ELSE [st EXCEPT ![k].answers =
                [j \in 1..Len(@) |-> [@[j] EXCEPT !.attempts = @ + 1]]]

\* updateOne({studentId, date, level, "answers.questionId": q},
\*           {$inc: {"answers.$.attempts": 1}})
IncAttempts(st, u, d, l, q) ==
    LET k == FindWithEntry(st, u, d, l, q)
    IN  IF k = 0 THEN st
        ELSE [st EXCEPT ![k].answers[EntryIndex(st[k], q)].attempts = @ + 1]

\* updateOne({... "answers.questionId": q},
\*           {$set: {"answers.$.isCorrect": true, "answers.$.earnedDiamonds": n}})
SetCorrect(st, u, d, l, q, n) ==
    LET k == FindWithEntry(st, u, d, l, q)
    IN  IF k = 0 THEN st
        ELSE [st EXCEPT ![k].answers[EntryIndex(st[k], q)].isCorrect = TRUE,
                        ![k].answers[EntryIndex(st[k], q)].earnedDiamonds = n]

\* afterProgress.totalDiamonds = t; afterProgress.completed = c;
\* await afterProgress.save(): a save sends only the paths whose value
\* differs from the value the document was loaded with, to the document
\* with the loaded _id
SaveTotals(st, loaded, t, c) ==
    [i \in 1..Len(st) |->
        IF st[i].id = loaded.id
        THEN [st[i] EXCEPT
                !.totalDiamonds = IF t # loaded.totalDiamonds THEN t ELSE @,
                !.completed     = IF c # loaded.completed THEN c ELSE @]
        ELSE st[i]]

\* progress.completed = true; await progress.save()
SaveCompleted(st, id) ==
    [i \in 1..Len(st) |->
        IF st[i].id = id THEN [st[i] EXCEPT !.completed = TRUE] ELSE st[i]]

\* Quiz.find({date, level}) / Quiz.countDocuments({date, level})
QuizFind(qz, d, l) == {x \in qz : x.date = d /\ x.level = l}

-----------------------------------------------------------------------------
(* POST /api/student-quiz/answer *)

\* Diamonds with the level compared as sent, not lower-cased
DiamondsCaseSensitive(level, attemptsNow, isCorrect) ==
    IF ~Truthy(isCorrect) THEN 0
    ELSE IF level = StrBeginner THEN
            (IF attemptsNow = 1 THEN 10
             ELSE IF attemptsNow = 2 THEN 5
             ELSE IF attemptsNow = 3 THEN 3
             ELSE 0)
    ELSE IF level = StrIntermediate THEN
            (IF attemptsNow = 1 THEN 20
             ELSE IF attemptsNow = 2 THEN 15
             ELSE IF attemptsNow = 3 THEN 10
             ELSE 5)
    ELSE IF level = StrAdvance \/ level = StrAdvanced THEN
            (IF attemptsNow = 1 THEN 30
             ELSE IF attemptsNow = 2 THEN 25
             ELSE IF attemptsNow = 3 THEN 20
             ELSE 10)
    ELSE (IF attemptsNow = 1 THEN 10 ELSE 0)

\* the reward of one submission, from the level as sent and the attempts
\* counter read back after the increment
Diamonds(level, attemptsNow, isCorrect) ==
    LET lvl == ToLowerCase(level) IN
    IF ~Truthy(isCorrect) THEN 0
    ELSE IF lvl = StrBeginner THEN
            (IF attemptsNow = 1 THEN 10
             ELSE IF attemptsNow = 2 THEN 5
             ELSE IF attemptsNow = 3 THEN 3
             ELSE 0)
    ELSE IF lvl = StrIntermediate THEN
            (IF attemptsNow = 1 THEN 20
             ELSE IF attemptsNow = 2 THEN 15
             ELSE IF attemptsNow = 3 THEN 10
             ELSE 5)
    ELSE IF lvl = StrAdvance \/ lvl = StrAdvanced THEN
            (IF attemptsNow = 1 THEN 30
             ELSE IF attemptsNow = 2 THEN 25
             ELSE IF attemptsNow = 3 THEN 20
             ELSE 10)
    ELSE (IF attemptsNow = 1 THEN 10 ELSE 0)

\* MissingParameters with isCorrect tested for falsiness (!isCorrect)
MissingParametersFalsy(r) ==
    \/ r.questionId = NoStr
    \/ r.date = NoStr
    \/ r.level = NoLevel
    \/ ~Truthy(r.isCorrect)

\* if (!questionId || !date || !level || typeof isCorrect === "undefined")
MissingParameters(r) ==
    \/ r.questionId = NoStr
    \/ r.date = NoStr
    \/ r.level = NoLevel
    \/ r.isCorrect = "undefined"

\* the completed flag as the handler recomputes it
Completion(totalQuestions, correctAnswersCount) ==
    IF totalQuestions > 0 /\ correctAnswersCount = totalQuestions THEN TRUE
    ELSE IF totalQuestions = 0 THEN TRUE
    ELSE FALSE

NormalizedAnswers(doc) == doc.answers

Idle(p) == pc[p] = "idle"

Finish(p, r) ==
    /\ pc' = [pc EXCEPT ![p] = "done"]
    /\ loc' = [loc EXCEPT ![p] = NoLoc]
    /\ resp' = [resp EXCEPT ![p] = r]

\* the response is sent and the request is over
Close(p) ==
    /\ pc[p] = "done"
    /\ pc' = [pc EXCEPT ![p] = "idle"]
    /\ req' = [req EXCEPT ![p] = NoReq]
    /\ resp' = [resp EXCEPT ![p] = NoResp]
    /\ UNCHANGED <<quiz, store, quizLevel, loc, nreq, nquiz>>

AnswerRequests ==
    [kind : {"answer"}, userId : Requesters,
     questionId : QIds \cup {NoStr}, date : {TheDate, NoStr},
     level : {quizLevel, NoLevel}, isCorrect : IsCorrectVals,
     page : {[t |-> "absent", n |-> 0]}, perPage : {[t |-> "absent", n |-> 0]},
     focus : {FALSE}]

\* a request of the set R arrives; the parameters are validated
AnswerStartFrom(p, R) ==
    /\ Idle(p)
    /\ nreq < MaxRequests
    /\ \E r \in R :
        \* one absent parameter at a time is enough to reach the check
        /\ Cardinality({f \in {"q", "d", "l", "c"} :
                \/ f = "q" /\ r.questionId = NoStr
                \/ f = "d" /\ r.date = NoStr
                \/ f = "l" /\ r.level = NoLevel
                \/ f = "c" /\ r.isCorrect = "undefined"}) <= 1
        /\ req' = [req EXCEPT ![p] = r]
        /\ nreq' = nreq + 1
        /\ IF MissingParameters(r)
           THEN Finish(p, [kind |-> "answer", status |-> 400])
           ELSE /\ pc' = [pc EXCEPT ![p] = "a_find"]
                /\ loc' = [loc EXCEPT ![p] = NoLoc]
                /\ resp' = [resp EXCEPT ![p] = NoResp]
    /\ UNCHANGED <<quiz, store, quizLevel, nquiz>>

AnswerStart(p) == AnswerStartFrom(p, AnswerRequests)

\* AfterResolve without the completed check
AfterResolveNoBlock(p, progress) ==
    /\ pc' = [pc EXCEPT ![p] =
            IF HasEntry(progress, req[p].questionId) THEN "a_inc" ELSE "a_push"]
    /\ loc' = [loc EXCEPT ![p].progress = progress]
    /\ UNCHANGED resp

\* the code that follows the lookup or creation of the record: the
\* completed check and the exists check
AfterResolve(p, progress) ==
    IF progress.completed
    THEN Finish(p, [kind |-> "answer", status |-> 200, blocked |-> TRUE])
    ELSE /\ pc' = [pc EXCEPT ![p] =
                IF HasEntry(progress, req[p].questionId) THEN "a_inc" ELSE "a_push"]
         /\ loc' = [loc EXCEPT ![p].progress = progress]
         /\ UNCHANGED resp

\* let progress = await StudentQuizProgress.findOne(...)
AnswerFind(p) ==
    /\ pc[p] = "a_find"
    /\ LET r == req[p]
           progress == FoundDoc(store, r.userId, r.date, r.level)
       IN  IF progress.id = 0
           THEN /\ pc' = [pc EXCEPT ![p] = "a_create"]
                /\ UNCHANGED <<loc, resp>>
           ELSE AfterResolve(p, progress)
    /\ UNCHANGED <<quiz, store, quizLevel, req, nreq, nquiz>>

\* progress = await StudentQuizProgress.create(...).  Without userId the
\* record is created without studentId, or the create is refused and the
\* catch block answers 500: the schema of the collection decides which.
AnswerCreate(p) ==
    /\ pc[p] = "a_create"
    /\ LET r == req[p]
           progress == NewDoc(store, r.userId, r.date, r.level)
       IN  \/ /\ store' = Append(store, progress)
              /\ AfterResolve(p, progress)
           \/ /\ r.userId = NoStr
              /\ store' = store
              /\ Finish(p, [kind |-> "answer", status |-> 500])
    /\ UNCHANGED <<quiz, quizLevel, req, nreq, nquiz>>

\* progress.answers.push(...); await progress.save(); the findOne that
\* follows reads a value no later line uses
AnswerPush(p) ==
    /\ pc[p] = "a_push"
    /\ store' = SavePush(store, loc[p].progress.id, req[p].questionId)
    /\ pc' = [pc EXCEPT ![p] = "a_inc"]
    /\ UNCHANGED <<quiz, quizLevel, req, loc, resp, nreq, nquiz>>

\* await StudentQuizProgress.updateOne(..., {$inc: ...})
AnswerInc(p) ==
    /\ pc[p] = "a_inc"
    /\ LET r == req[p] IN
       store' = IncAttempts(store, r.userId, r.date, r.level, r.questionId)
    /\ pc' = [pc EXCEPT ![p] = "a_fresh"]
    /\ UNCHANGED <<quiz, quizLevel, req, loc, resp, nreq, nquiz>>

\* const freshProgress = await findOne(...); updatedAnswer; attemptsNow; diamonds
AnswerFresh(p) ==
    /\ pc[p] = "a_fresh"
    /\ LET r == req[p]
           freshProgress == FoundDoc(store, r.userId, r.date, r.level)
           k == EntryIndex(freshProgress, r.questionId)
       IN  IF k = 0
           THEN Finish(p, [kind |-> "answer", status |-> 500])
           ELSE LET attemptsNow == freshProgress.answers[k].attempts IN
                /\ loc' = [loc EXCEPT
                            ![p].attemptsNow = attemptsNow,
                            ![p].diamonds = Diamonds(r.level, attemptsNow, r.isCorrect)]
                /\ pc' = [pc EXCEPT ![p] =
                            IF Truthy(r.isCorrect) THEN "a_set" ELSE "a_after"]
                /\ UNCHANGED resp
    /\ UNCHANGED <<quiz, store, quizLevel, req, nreq, nquiz>>

\* await StudentQuizProgress.updateOne(..., {$set: ...})
AnswerSet(p) ==
    /\ pc[p] = "a_set"
    /\ LET r == req[p] IN
       store' = SetCorrect(store, r.userId, r.date, r.level, r.questionId,
                           loc[p].diamonds)
    /\ pc' = [pc EXCEPT ![p] = "a_after"]
    /\ UNCHANGED <<quiz, quizLevel, req, loc, resp, nreq, nquiz>>

\* const afterProgress = await findOne(...); afterProgress.totalDiamonds = ...
AnswerAfter(p) ==
    /\ pc[p] = "a_after"
    /\ LET r == req[p]
           afterProgress == FoundDoc(store, r.userId, r.date, r.level)
       IN  loc' = [loc EXCEPT
                      ![p].afterProgress = afterProgress,
                      ![p].totalDiamonds = SumEarned(afterProgress.answers)]
    /\ pc' = [pc EXCEPT ![p] = "a_count"]
    /\ UNCHANGED <<quiz, store, quizLevel, req, resp, nreq, nquiz>>

\* const totalQuestions = await Quiz.countDocuments({date, level}); completed
AnswerCount(p) ==
    /\ pc[p] = "a_count"
    /\ LET r == req[p]
           totalQuestions == Cardinality(QuizFind(quiz, r.date, r.level))
           correctAnswersCount == CorrectCount(loc[p].afterProgress.answers)
       IN  loc' = [loc EXCEPT
                      ![p].totalQuestions = totalQuestions,
                      ![p].completed = Completion(totalQuestions, correctAnswersCount)]
    /\ pc' = [pc EXCEPT ![p] = "a_save"]
    /\ UNCHANGED <<quiz, store, quizLevel, req, resp, nreq, nquiz>>

\* await afterProgress.save(); res.json({success: true, ...})
AnswerSave(p) ==
    /\ pc[p] = "a_save"
    /\ LET r == req[p]
           l == loc[p]
           after == [l.afterProgress EXCEPT !.totalDiamonds = l.totalDiamonds,
                                            !.completed = l.completed]
           k == EntryIndex(after, r.questionId)
       IN  /\ store' = SaveTotals(store, l.afterProgress, l.totalDiamonds, l.completed)
           /\ Finish(p, [kind |-> "answer", status |-> 200, blocked |-> FALSE,
                         attempts |-> IF k # 0 THEN after.answers[k].attempts
                                      ELSE l.attemptsNow,
                         earnedDiamonds |-> IF k # 0 THEN after.answers[k].earnedDiamonds
                                            ELSE l.diamonds,
                         totalDiamonds |-> after.totalDiamonds,
                         completed |-> after.completed,
                         answers |-> NormalizedAnswers(after)])
    /\ UNCHANGED <<quiz, quizLevel, req, nreq, nquiz>>

Answer(p) ==
    \/ AnswerStart(p)
    \/ AnswerFind(p)
    \/ AnswerCreate(p)
    \/ AnswerPush(p)
    \/ AnswerInc(p)
    \/ AnswerFresh(p)
    \/ AnswerSet(p)
    \/ AnswerAfter(p)
    \/ AnswerCount(p)
    \/ AnswerSave(p)

-----------------------------------------------------------------------------
(* GET /api/student-quiz/:date/:level *)

FetchRequests ==
    [kind : {"fetch"}, userId : Requesters, questionId : {NoStr},
     date : {TheDate}, level : {quizLevel}, isCorrect : {"undefined"},
     page : {[t |-> "absent", n |-> 0]}, perPage : {[t |-> "absent", n |-> 0]},
     focus : {FALSE}]

FetchStart(p) ==
    /\ Idle(p)
    /\ nreq < MaxRequests
    /\ \E r \in FetchRequests : req' = [req EXCEPT ![p] = r]
    /\ nreq' = nreq + 1
    /\ pc' = [pc EXCEPT ![p] = "f_quiz"]
    /\ loc' = [loc EXCEPT ![p] = NoLoc]
    /\ resp' = [resp EXCEPT ![p] = NoResp]
    /\ UNCHANGED <<quiz, store, quizLevel, nquiz>>

\* const questions = await Quiz.find({date, level})
FetchQuiz(p) ==
    /\ pc[p] = "f_quiz"
    /\ loc' = [loc EXCEPT ![p].questions =
                {x.id : x \in QuizFind(quiz, req[p].date, req[p].level)}]
    /\ pc' = [pc EXCEPT ![p] = "f_find"]
    /\ UNCHANGED <<quiz, store, quizLevel, req, resp, nreq, nquiz>>

\* the code that follows the lookup or creation of the record:
\* normalizedProgress is taken from the record as loaded, before the
\* empty-bucket branch sets completed
FetchRest(p, progress) ==
    IF loc[p].questions = {} /\ ~progress.completed
    THEN /\ pc' = [pc EXCEPT ![p] = "f_save"]
         /\ loc' = [loc EXCEPT ![p].progress = progress]
         /\ UNCHANGED resp
    ELSE Finish(p, [kind |-> "fetch", status |-> 200,
                    questions |-> loc[p].questions, progress |-> progress])

FetchFind(p) ==
    /\ pc[p] = "f_find"
    /\ LET r == req[p]
           progress == FoundDoc(store, r.userId, r.date, r.level)
       IN  IF progress.id = 0
           THEN /\ pc' = [pc EXCEPT ![p] = "f_create"]
                /\ UNCHANGED <<loc, resp>>
           ELSE FetchRest(p, progress)
    /\ UNCHANGED <<quiz, store, quizLevel, req, nreq, nquiz>>

FetchCreate(p) ==
    /\ pc[p] = "f_create"
    /\ LET r == req[p]
           progress == NewDoc(store, r.userId, r.date, r.level)
       IN  /\ store' = Append(store, progress)
           /\ FetchRest(p, progress)
    /\ UNCHANGED <<quiz, quizLevel, req, nreq, nquiz>>

\* progress.completed = true; await progress.save(); res.json(...)
FetchSave(p) ==
    /\ pc[p] = "f_save"
    /\ store' = SaveCompleted(store, loc[p].progress.id)
    /\ Finish(p, [kind |-> "fetch", status |-> 200,
                  questions |-> {}, progress |-> loc[p].progress])
    /\ UNCHANGED <<quiz, quizLevel, req, nreq, nquiz>>

Fetch(p) ==
    \/ FetchStart(p)
    \/ FetchQuiz(p)
    \/ FetchFind(p)
    \/ FetchCreate(p)
    \/ FetchSave(p)

-----------------------------------------------------------------------------
(* /api/quiz: create, update, delete a question *)

QuizIds(qz) == {x.id : x \in qz}

\* the level a question is moved to by an update that takes it out of the bucket
OtherLevel == <<"o","t","h","e","r">>

\* Quiz.create(req.body)
QuizCreate ==
    /\ nquiz < MaxQuizOps
    /\ \E q \in QIds \ QuizIds(quiz) :
        quiz' = quiz \cup {[id |-> q, date |-> TheDate, level |-> quizLevel]}
    /\ nquiz' = nquiz + 1
    /\ UNCHANGED <<store, quizLevel, pc, req, loc, resp, nreq>>

\* Quiz.findByIdAndUpdate(req.params.id, req.body)
QuizUpdate ==
    /\ nquiz < MaxQuizOps
    /\ \E x \in quiz, l \in {quizLevel, OtherLevel} :
        /\ l # x.level
        /\ quiz' = (quiz \ {x}) \cup {[x EXCEPT !.level = l]}
    /\ nquiz' = nquiz + 1
    /\ UNCHANGED <<store, quizLevel, pc, req, loc, resp, nreq>>

\* Quiz.findByIdAndDelete(req.params.id)
QuizDelete ==
    /\ nquiz < MaxQuizOps
    /\ \E x \in quiz : quiz' = quiz \ {x}
    /\ nquiz' = nquiz + 1
    /\ UNCHANGED <<store, quizLevel, pc, req, loc, resp, nreq>>

-----------------------------------------------------------------------------
(* The quiz specifications *)

\* the record a student holds after k wrong answers to q1
PriorDoc(u, l, k) ==
    [id |-> 1, studentId |-> u, date |-> TheDate, level |-> l,
     answers |-> <<[questionId |-> "q1", attempts |-> k,
                    earnedDiamonds |-> 0, isCorrect |-> FALSE]>>,
     totalDiamonds |-> 0, completed |-> FALSE]

\* the record a student holds after fetching the bucket while it was empty
FetchedEmptyDoc(u, l) ==
    [id |-> 1, studentId |-> u, date |-> TheDate, level |-> l,
     answers |-> <<>>, totalDiamonds |-> 0, completed |-> TRUE]

\* the record a student holds after a first, correct answer to q1 while
\* the bucket held a question the student had not solved
SolvedOneDoc(u, l) ==
    [id |-> 1, studentId |-> u, date |-> TheDate, level |-> l,
     answers |-> <<[questionId |-> "q1", attempts |-> 1,
                    earnedDiamonds |-> Diamonds(l, 1, "true"),
                    isCorrect |-> TRUE]>>,
     totalDiamonds |-> Diamonds(l, 1, "true"), completed |-> FALSE]

Buckets == {{}, {"q1"}, {"q1", "q2"}}

InitRest ==
    /\ pc = [p \in Procs |-> "idle"]
    /\ req = [p \in Procs |-> NoReq]
    /\ loc = [p \in Procs |-> NoLoc]
    /\ resp = [p \in Procs |-> NoResp]
    /\ nreq = 0
    /\ nquiz = 0

\* the level the concurrent behaviours work on
ConcLevels == {<<"A","D","V","A","N","C","E">>}

\* Concurrent requests.  The questions of the bucket are in place when the
\* requests arrive; the store is empty, or holds the record of the
\* student's earlier answers to q1, or the record of another student.
Init ==
    /\ quizLevel \in ConcLevels
    /\ \E b \in Buckets :
        quiz = {[id |-> q, date |-> TheDate, level |-> quizLevel] : q \in b}
    /\ \/ store = <<>>
       \/ store = <<PriorDoc("s1", quizLevel, 1)>>
       \/ store = <<SolvedOneDoc("s1", quizLevel)>>
       \/ store = <<FetchedEmptyDoc("s2", quizLevel)>>
    /\ InitRest

\* Requests are served concurrently, one per slot: the awaits of
\* different requests interleave.  A question enters or leaves the bucket
\* by create or delete (an update that moves it acts on the bucket alike).
Next ==
    \/ \E p \in Procs : Answer(p) \/ Fetch(p)
    \/ QuizCreate
    \/ QuizDelete

Spec == Init /\ [][Next]_vars

\* Requests executed one after another, on every level.
SeqInit ==
    /\ quizLevel \in Levels
    /\ \E b \in Buckets :
        quiz = {[id |-> q, date |-> TheDate, level |-> quizLevel] : q \in b}
    /\ \/ store = <<>>
       \/ \E k \in 1..MaxPrior : store = <<PriorDoc("s1", quizLevel, k)>>
       \/ store = <<FetchedEmptyDoc("s2", quizLevel)>>
    /\ InitRest

SeqNext ==
    \/ Answer("p1")
    \/ Fetch("p1")
    \/ Close("p1")
    \/ Idle("p1") /\ QuizCreate
    \/ Idle("p1") /\ QuizUpdate
    \/ Idle("p1") /\ QuizDelete

SeqSpec == SeqInit /\ [][SeqNext]_vars

-----------------------------------------------------------------------------
(* JavaScript numbers of the leaderboard's page arithmetic: an integer or NaN *)

Num(n) == [t |-> "num", n |-> n]
NaN    == [t |-> "nan", n |-> 0]

\* a query parameter: absent, a decimal integer, or another text
AbsentParam == [t |-> "absent", n |-> 0]
TextParam   == [t |-> "text", n |-> 0]
IntParam(n) == [t |-> "int", n |-> n]

\* parseInt(req.query.x || dflt, 10)
ParseIntOr(param, dflt) ==
    IF param.t = "absent" THEN Num(dflt)
    ELSE IF param.t = "int" THEN Num(param.n)
    ELSE NaN

\* Math.max(1, x): NaN when x is NaN
MathMax1(x) == IF x.t = "nan" THEN NaN ELSE Num(IF x.n > 1 THEN x.n ELSE 1)

\* Math.ceil(a / b) for a >= 0, b >= 1
CeilDiv(a, b) == (a + b - 1) \div b

-----------------------------------------------------------------------------
(* GET /api/leaderboard *)

\* the Student collection: s4 has progress records and no Student document
StudentDocs == {"s1", "s2", "s3"}
StudentName(u) == IF u \in StudentDocs THEN <<"name of", u>> ELSE <<"Unknown">>

RECURSIVE SumTotals(_)
\* $sum: {$ifNull: ["$totalDiamonds", 0]} over the records of a group
SumTotals(docs) ==
    IF docs = <<>> THEN 0
    ELSE docs[1].totalDiamonds + SumTotals(Tail(docs))

\* {$group: {_id: "$studentId", total: {$sum: ...}}}: one row per studentId
GroupByStudent(st) ==
    LET ids == {st[i].studentId : i \in 1..Len(st)} IN
    { [id |-> u,
       total |-> SumTotals(SelectSeq(st, LAMBDA d : d.studentId = u))] : u \in ids }

\* the orders {$sort: {total: -1}} can give a set of rows: every
\* arrangement with the totals descending (the order of equal totals is
\* left open by the store)
SortedAscending(rows) ==
    { sq \in [1..Cardinality(rows) -> rows] :
        /\ \A i, j \in 1..Cardinality(rows) : i # j => sq[i] # sq[j]
        /\ \A i, j \in 1..Cardinality(rows) : i < j => sq[i].total <= sq[j].total }

SortedDescending(rows) ==
    { sq \in [1..Cardinality(rows) -> rows] :
        /\ \A i, j \in 1..Cardinality(rows) : i # j => sq[i] # sq[j]
        /\ \A i, j \in 1..Cardinality(rows) : i < j => sq[i].total >= sq[j].total }

\* $lookup + $unwind that drops the rows without a Student document
UnwindDropMissing(sorted) == SelectSeq(sorted, LAMBDA r : r.id \in StudentDocs)

\* $lookup from students, $unwind with preserveNullAndEmptyArrays: true:
\* every row is kept, with or without its Student document
LookupUnwind(sorted) == sorted

\* $project, then agg.map((row, idx) => ({studentId, name, score, rank: idx + 1}))
BuildLeaderboard(agg) ==
    [i \in 1..Len(agg) |->
        [studentId |-> agg[i].id, name |-> StudentName(agg[i].id),
         score |-> agg[i].total, rank |-> i]]

\* leaderboard.find((l) => String(l.studentId) === String(userId)).rank;
\* 0 stands for null
UserRank(leaderboard, userId) ==
    IF userId = NoStr THEN 0
    ELSE LET I == {i \in 1..Len(leaderboard) : leaderboard[i].studentId = userId}
         IN  IF I = {} THEN 0 ELSE leaderboard[Min(I)].rank

\* FocusPage with the rank divided before the 1 is taken off
FocusPageOffByOne(userRank, perPage) ==
    IF perPage.t = "nan" THEN NaN ELSE Num((userRank \div perPage.n) + 1)

\* Math.floor((userRank - 1) / perPage) + 1
FocusPage(userRank, perPage) ==
    IF perPage.t = "nan" THEN NaN ELSE Num(((userRank - 1) \div perPage.n) + 1)

\* the else branch: maxPage = Math.max(1, Math.ceil(totalCount / perPage));
\* if (pageToReturn > maxPage) pageToReturn = maxPage; a comparison with
\* NaN is false
ClampPage(pageReq, totalCount, perPage) ==
    IF pageReq.t = "nan" \/ perPage.t = "nan" THEN pageReq
    ELSE LET c == CeilDiv(totalCount, perPage.n)
             maxPage == IF c > 1 THEN c ELSE 1
         IN  IF pageReq.n > maxPage THEN Num(maxPage) ELSE pageReq

\* leaderboard.slice(start, start + perPage) with start = (page - 1) * perPage;
\* slice reads a NaN bound as 0
PageSlice(leaderboard, page, perPage) ==
    IF page.t = "nan" \/ perPage.t = "nan" THEN <<>>
    ELSE LET start == (page.n - 1) * perPage.n
             last  == IF start + perPage.n < Len(leaderboard)
                      THEN start + perPage.n ELSE Len(leaderboard)
         IN  IF start >= last THEN <<>>
             ELSE [i \in 1..(last - start) |-> leaderboard[start + i]]

\* .map((p) => ({...p, isYou: userId ? String(p.studentId) === String(userId) : false}))
WithIsYou(rows, userId) ==
    [i \in 1..Len(rows) |->
        [studentId |-> rows[i].studentId, name |-> rows[i].name,
         score |-> rows[i].score, rank |-> rows[i].rank,
         isYou |-> (userId # NoStr /\ rows[i].studentId = userId)]]

\* Array.prototype.slice(0, 3)
Top3(leaderboard) ==
    [i \in 1..(IF Len(leaderboard) < 3 THEN Len(leaderboard) ELSE 3) |-> leaderboard[i]]

\* the response of the handler to a request, for one order of the aggregation
LeaderboardResponse(r, agg) ==
    LET perPage == MathMax1(ParseIntOr(r.perPage, 10))
        pageReq == MathMax1(ParseIntOr(r.page, 1))
        leaderboard == BuildLeaderboard(agg)
        totalCount == Len(leaderboard)
        userRank == UserRank(leaderboard, r.userId)
        pageToReturn == IF r.focus /\ userRank # 0
                        THEN FocusPage(userRank, perPage)
                        ELSE ClampPage(pageReq, totalCount, perPage)
    IN  IF Len(agg) = 0
        THEN [kind |-> "leaderboard", status |-> 200, top3 |-> <<>>,
              page |-> Num(1), perPage |-> perPage, totalCount |-> 0,
              userRank |-> 0, pageList |-> <<>>, leaderboard |-> <<>>]
        ELSE [kind |-> "leaderboard", status |-> 200, top3 |-> Top3(leaderboard),
              page |-> pageToReturn, perPage |-> perPage,
              totalCount |-> totalCount, userRank |-> userRank,
              pageList |-> WithIsYou(PageSlice(leaderboard, pageToReturn, perPage),
                                     r.userId),
              leaderboard |-> leaderboard]

PageParams ==
    {AbsentParam, TextParam} \cup {IntParam(n) : n \in (0 - 1)..MaxPageReq}

PerPageParams ==
    {AbsentParam, TextParam} \cup {IntParam(n) : n \in 0..MaxPageReq}

\* the students who ask for the leaderboard: one of them, or nobody
\* (req.user.userId absent)
LeaderboardRequesters == {"s2", NoStr}

LeaderboardRequests ==
    [kind : {"leaderboard"}, userId : LeaderboardRequesters, questionId : {NoStr},
     date : {NoStr}, level : {NoLevel}, isCorrect : {"undefined"},
     page : PageParams, perPage : PerPageParams, focus : BOOLEAN]

\* the handler: one aggregation, then the response.  The response keeps
\* the handler's leaderboard array beside the fields that are sent.
Leaderboard(p) ==
    /\ Idle(p)
    /\ \E r \in LeaderboardRequests :
        \E agg \in SortedDescending(GroupByStudent(store)) :
            /\ req' = [req EXCEPT ![p] = r]
            /\ Finish(p, LeaderboardResponse(r, LookupUnwind(agg)))
    /\ UNCHANGED <<quiz, store, quizLevel, nreq, nquiz>>

-----------------------------------------------------------------------------
(* GET /api/student-quiz/total *)

\* $match {studentId}, $group {_id: null, total: {$sum: ...}};
\* (result[0] && Number(result[0].total)) || 0
TotalValue(st, userId) == SumTotals(SelectSeq(st, LAMBDA d : d.studentId = userId))

TotalRequests ==
    [kind : {"total"}, userId : Students \cup {NoStr}, questionId : {NoStr},
     date : {NoStr}, level : {NoLevel}, isCorrect : {"undefined"},
     page : {AbsentParam}, perPage : {AbsentParam}, focus : {FALSE}]

Total(p) ==
    /\ Idle(p)
    /\ \E r \in TotalRequests :
        /\ req' = [req EXCEPT ![p] = r]
        /\ IF r.userId = NoStr
           THEN Finish(p, [kind |-> "total", status |-> 400])
           ELSE Finish(p, [kind |-> "total", status |-> 200,
                           total |-> TotalValue(store, r.userId)])
    /\ UNCHANGED <<quiz, store, quizLevel, nreq, nquiz>>

-----------------------------------------------------------------------------
(* The leaderboard specification: the read-only routes over the stores the
   quiz routes can leave behind *)

\* what a student's records can be: none, one with a wrong answer, one or
\* two with a first-attempt correct answer
Profiles(u) ==
    { <<>>,
      <<PriorDoc(u, StrBeginner, 1)>>,
      <<SolvedOneDoc(u, StrBeginner)>>,
      <<SolvedOneDoc(u, StrBeginner), SolvedOneDoc(u, StrAdvanced)>> }

\* the records numbered in insertion order
Renumber(docs) == [i \in 1..Len(docs) |-> [docs[i] EXCEPT !.id = i]]

LBInit ==
    /\ quizLevel = StrBeginner
    /\ quiz = {}
    /\ \E a \in Profiles("s1"), b \in Profiles("s2"),
          c \in Profiles("s3"), d \in Profiles("s4") :
        store = Renumber(a \o b \o c \o d)
    /\ InitRest

LBNext ==
    \/ Leaderboard("p1")
    \/ Total("p1")
    \/ Close("p1")

LBSpec == LBInit /\ [][LBNext]_vars

-----------------------------------------------------------------------------
(* GET /api/leaderboard/summary/:id *)

\* {$match: {studentId}}, {$group: {_id: "$level", total: {$sum: ...}}}:
\* one row per distinct level string of the student's records
LevelAgg(st, studentId) ==
    LET own == SelectSeq(st, LAMBDA d : d.studentId = studentId) IN
    { [id |-> l,
       total |-> SumTotals(SelectSeq(own, LAMBDA d : d.level = l))] :
        l \in {own[i].level : i \in 1..Len(own)} }

\* the if / else if chain of the forEach: the bucket a level row is written to
SummaryBucket(level) ==
    LET lvl == ToLowerCase(level) IN
    IF Includes(lvl, StrBegin) THEN "beginner"
    ELSE IF Includes(lvl, StrInter) THEN "intermediate"
    ELSE IF Includes(lvl, StrAdvance) THEN "advanced"
    ELSE "none"

\* the values levels[bucket] can hold after the forEach: 0 when no row is
\* written to the bucket, else the total of the row written last (the
\* assignment overwrites; $group returns its rows in no fixed order)
BucketValues(levelAgg, bucket) ==
    LET rows == {r \in levelAgg : SummaryBucket(r.id) = bucket} IN
    IF rows = {} THEN {0} ELSE {r.total : r \in rows}

\* const levels = {beginner: 0, intermediate: 0, advanced: 0} after the forEach
NormalizedLevels(levelAgg) ==
    [beginner : BucketValues(levelAgg, "beginner"),
     intermediate : BucketValues(levelAgg, "intermediate"),
     advanced : BucketValues(levelAgg, "advanced")]

\* leaderboardAgg.forEach((row, idx) => {if (String(row._id) ===
\* String(studentId)) rank = idx + 1}); 0 stands for null
SummaryRank(agg, studentId) ==
    LET I == {i \in 1..Len(agg) : agg[i].id = studentId} IN
    IF I = {} THEN 0 ELSE CHOOSE i \in I : \A j \in I : j <= i

\* req.params.id names the student; the route matches no empty id
SummaryRequests ==
    [kind : {"summary"}, id : Students, userId : {NoStr}, questionId : {NoStr},
     date : {NoStr}, level : {NoLevel}, isCorrect : {"undefined"},
     page : {AbsentParam}, perPage : {AbsentParam}, focus : {FALSE}]

SummaryStart(p) ==
    /\ Idle(p)
    /\ \E r \in SummaryRequests : req' = [req EXCEPT ![p] = r]
    /\ pc' = [pc EXCEPT ![p] = "s_student"]
    /\ UNCHANGED <<quiz, store, quizLevel, loc, resp, nreq, nquiz>>

\* await Student.findById(studentId)
SummaryStudent(p) ==
    /\ pc[p] = "s_student"
    /\ IF req[p].id \notin StudentDocs
       THEN Finish(p, [kind |-> "summary", status |-> 404])
       ELSE /\ pc' = [pc EXCEPT ![p] = "s_levels"]
            /\ UNCHANGED <<loc, resp>>
    /\ UNCHANGED <<quiz, store, quizLevel, req, nreq, nquiz>>

\* await StudentQuizProgress.aggregate (per level); levels; overall
SummaryLevels(p) ==
    /\ pc[p] = "s_levels"
    /\ \E levels \in NormalizedLevels(LevelAgg(store, req[p].id)) :
        loc' = [loc EXCEPT ![p] =
                  [levels |-> levels,
                   overall |-> levels.beginner + levels.intermediate
                               + levels.advanced]]
    /\ pc' = [pc EXCEPT ![p] = "s_rank"]
    /\ UNCHANGED <<quiz, store, quizLevel, req, resp, nreq, nquiz>>

\* await StudentQuizProgress.aggregate (per student, sorted); rank; response
SummaryRankStep(p) ==
    /\ pc[p] = "s_rank"
    /\ \E agg \in SortedDescending(GroupByStudent(store)) :
        Finish(p, [kind |-> "summary", status |-> 200,
                   levels |-> loc[p].levels, overall |-> loc[p].overall,
                   rank |-> SummaryRank(agg, req[p].id)])
    /\ UNCHANGED <<quiz, store, quizLevel, req, nreq, nquiz>>

Summary(p) ==
    \/ SummaryStart(p)
    \/ SummaryStudent(p)
    \/ SummaryLevels(p)
    \/ SummaryRankStep(p)

-----------------------------------------------------------------------------
(* The summary specification: a summary and a leaderboard request over the
   same store *)

LvlBeginners    == <<"b","e","g","i","n","n","e","r","s">>
LvlExpert       == <<"e","x","p","e","r","t">>
LvlIntermediate == <<"I","n","t","e","r","m","e","d","i","a","t","e">>
LvlAdvance      == <<"A","D","V","A","N","C","E">>

\* records of one student under several level strings: two strings of the
\* same bucket, an unrecognised string, two different buckets
LevelProfiles(u) ==
    { <<SolvedOneDoc(u, StrBeginner), SolvedOneDoc(u, LvlBeginners)>>,
      <<SolvedOneDoc(u, LvlExpert)>>,
      <<SolvedOneDoc(u, LvlIntermediate), SolvedOneDoc(u, LvlAdvance)>> }

SumInit ==
    /\ quizLevel = StrBeginner
    /\ quiz = {}
    /\ \E a \in Profiles("s1"), b \in Profiles("s2") \cup LevelProfiles("s2"),
          d \in {<<>>, <<PriorDoc("s4", StrBeginner, 1)>>} :
        store = Renumber(a \o b \o d)
    /\ InitRest

SumNext ==
    \/ Summary("p1")
    \/ Leaderboard("p2")

SumSpec == SumInit /\ [][SumNext]_vars

-----------------------------------------------------------------------------
(* The identity specification: requests that carry no req.user.userId *)

\* complete submissions without identity
AnonymousAnswerRequests ==
    [kind : {"answer"}, userId : {NoStr}, questionId : QIds, date : {TheDate},
     level : {quizLevel}, isCorrect : {"true", "false"},
     page : {AbsentParam}, perPage : {AbsentParam}, focus : {FALSE}]

IdInit ==
    /\ quizLevel \in Levels
    /\ \E b \in Buckets :
        quiz = {[id |-> q, date |-> TheDate, level |-> quizLevel] : q \in b}
    /\ \/ store = <<>>
       \/ store = <<PriorDoc("s1", quizLevel, 1)>>
    /\ InitRest

\* one request at a time: submissions without identity, and GET /total
\* with and without identity
IdNext ==
    \/ AnswerStartFrom("p1", AnonymousAnswerRequests)
    \/ AnswerFind("p1")
    \/ AnswerCreate("p1")
    \/ AnswerPush("p1")
    \/ AnswerInc("p1")
    \/ AnswerFresh("p1")
    \/ AnswerSet("p1")
    \/ AnswerAfter("p1")
    \/ AnswerCount("p1")
    \/ AnswerSave("p1")
    \/ Total("p1")
    \/ Close("p1")

IdSpec == IdInit /\ [][IdNext]_vars

-----------------------------------------------------------------------------
(* Claims about POST /answer *)

AnswerPcs ==
    {"a_find", "a_create", "a_push", "a_inc", "a_fresh", "a_set", "a_after",
     "a_count", "a_save"}

\* the record a request's triple resolves to
ReqDoc(p) == FoundDoc(store, req[p].userId, req[p].date, req[p].level)

\* the reward table of the scoring engine: one row per level, one column
\* per attempt 1, 2, 3, >= 4
TableRow(level) ==
    LET l == ToLowerCase(level) IN
    IF l = StrBeginner THEN <<10, 5, 3, 0>>
    ELSE IF l = StrIntermediate THEN <<20, 15, 10, 5>>
    ELSE IF l \in {StrAdvance, StrAdvanced} THEN <<30, 25, 20, 10>>
    ELSE <<10, 0, 0, 0>>

TableReward(level, n) == TableRow(level)[IF n >= 4 THEN 4 ELSE n]

\* C1: the diamonds a submission computes equal the reward table's cell of
\* its level (compared case-insensitively) and attempt number for a
\* correct answer, and 0 for a wrong answer.
C1_RewardMatchesTable ==
    \A p \in Procs :
        (pc[p] \in {"a_set", "a_after", "a_count", "a_save"}
            /\ loc[p].attemptsNow >= 1)
        => loc[p].diamonds =
              IF req[p].isCorrect = "true"
              THEN TableReward(req[p].level, loc[p].attemptsNow)
              ELSE 0

\* a correct answer at a fourth or later attempt on a level sent in mixed case
C1_Witness ==
    \E p \in Procs :
        /\ pc[p] = "a_set"
        /\ loc[p].attemptsNow >= 4
        /\ req[p].level # ToLowerCase(req[p].level)
        /\ loc[p].diamonds = 5

ValidAnswer(r) ==
    /\ r.kind = "answer"
    /\ r.questionId # NoStr /\ r.date # NoStr /\ r.level # NoLevel
    /\ r.isCorrect # "undefined"

BlockedResp == [kind |-> "answer", status |-> 200, blocked |-> TRUE]

\* C2: with requests served one after another, a completed record never
\* changes again, and a submission that finds its record completed
\* returns the blocked result.
C2_CompletedBlocks ==
    [][ /\ \A i \in 1..Len(store) :
            store[i].completed => (Len(store') >= i /\ store'[i] = store[i])
        /\ \A p \in Procs :
            (pc[p] \in AnswerPcs /\ pc'[p] = "done" /\ ReqDoc(p).completed)
            => resp'[p] = BlockedResp
      ]_vars

\* a submission blocked on a record that the student's answers completed
C2_Witness ==
    \E p \in Procs :
        /\ pc[p] = "done"
        /\ resp[p] = BlockedResp
        /\ ReqDoc(p).answers # <<>>
        /\ ReqDoc(p).totalDiamonds > 0

\* the questions of the bucket of a request
Bucket(p) == {x.id : x \in QuizFind(quiz, req[p].date, req[p].level)}

SolvedAll(doc, bucket) ==
    \A q \in bucket :
        \E j \in 1..Len(doc.answers) :
            doc.answers[j].questionId = q /\ doc.answers[j].isCorrect

Returned(p) ==
    /\ pc[p] = "done"
    /\ resp[p].kind = "answer"
    /\ resp[p].status = 200
    /\ ~resp[p].blocked

\* C3: after a non-blocked submission returns, completed is true iff the
\* bucket is empty or every question of the bucket has a correct entry.
C3_CompletedIffSolved ==
    \A p \in Procs :
        Returned(p) =>
            (ReqDoc(p).completed <=>
                (Bucket(p) = {} \/ SolvedAll(ReqDoc(p), Bucket(p))))

InFlight(doc) ==
    \E p \in Procs :
        /\ pc[p] \in AnswerPcs
        /\ Matches(doc, req[p].userId, req[p].date, req[p].level)

\* C4: whenever no submission is in flight for a record's triple, its
\* totalDiamonds is the sum of its entries' earnedDiamonds.
C4_TotalIsSum ==
    \A i \in 1..Len(store) :
        ~InFlight(store[i]) =>
            store[i].totalDiamonds = SumEarned(store[i].answers)

\* the entries of the store: (record, entry) index pairs
Entries(st) ==
    UNION {{<<i, j>> : j \in 1..Len(st[i].answers)} : i \in 1..Len(st)}

EntryAt(st, e) == st[e[1]].answers[e[2]]

\* C5: every step of a wrong submission leaves isCorrect and
\* earnedDiamonds of every entry alone; its increment raises the attempts
\* of one entry of its question by exactly 1 and its other steps change no
\* attempts; an entry it inserts starts at attempts 0, not correct, 0
\* diamonds; and no step of any request turns isCorrect from true to false.
C5_WrongAnswerFrame ==
    [][ /\ \A e \in Entries(store) :
            /\ e \in Entries(store')
            /\ EntryAt(store, e).isCorrect => EntryAt(store', e).isCorrect
        /\ \A p \in Procs :
            (pc'[p] # pc[p] /\ req'[p].kind = "answer"
                /\ req'[p].isCorrect = "false")
            =>
            /\ \A e \in Entries(store) :
                /\ EntryAt(store', e).isCorrect = EntryAt(store, e).isCorrect
                /\ EntryAt(store', e).earnedDiamonds = EntryAt(store, e).earnedDiamonds
                /\ pc[p] # "a_inc" =>
                       EntryAt(store', e).attempts = EntryAt(store, e).attempts
            /\ \A e \in Entries(store') \ Entries(store) :
                EntryAt(store', e) = [questionId |-> req[p].questionId,
                                      attempts |-> 0, earnedDiamonds |-> 0,
                                      isCorrect |-> FALSE]
            /\ pc[p] = "a_inc" =>
                \E e \in Entries(store) :
                    /\ EntryAt(store, e).questionId = req[p].questionId
                    /\ Matches(store[e[1]], req[p].userId, req[p].date, req[p].level)
                    /\ EntryAt(store', e).attempts = EntryAt(store, e).attempts + 1
                    /\ \A f \in Entries(store) \ {e} :
                        EntryAt(store', f).attempts = EntryAt(store, f).attempts
      ]_vars

\* a wrong answer has been served on an entry that was already correct
C5_Witness ==
    \E p \in Procs :
        /\ Returned(p)
        /\ req[p].isCorrect = "false"
        /\ \E j \in 1..Len(ReqDoc(p).answers) :
            /\ ReqDoc(p).answers[j].questionId = req[p].questionId
            /\ ReqDoc(p).answers[j].isCorrect
            /\ ReqDoc(p).answers[j].attempts >= 2
            /\ ReqDoc(p).answers[j].earnedDiamonds > 0

\* a parameter of the request is absent
Absent(r) ==
    r.questionId = "" \/ r.date = "" \/ r.level = <<>> \/ r.isCorrect = "undefined"

\* C6: a submission with an absent questionId, date, level or isCorrect
\* ends at once with status 400 and the store unchanged; any other
\* submission, isCorrect = false included, goes on to the record lookup
\* and is never answered 400.
C6_Validation ==
    [][ \A p \in Procs :
        /\ (pc[p] = "idle" /\ pc'[p] # "idle" /\ req'[p].kind = "answer") =>
            IF Absent(req'[p])
            THEN pc'[p] = "done" /\ resp'[p].status = 400 /\ store' = store
            ELSE pc'[p] = "a_find"
        /\ (pc[p] \in AnswerPcs /\ pc'[p] = "done") => resp'[p].status # 400
      ]_vars

\* a submission without isCorrect was rejected while the student held a record
C6_Witness ==
    \E p \in Procs :
        /\ pc[p] = "done"
        /\ resp[p] = [kind |-> "answer", status |-> 400]
        /\ req[p].isCorrect = "undefined"
        /\ req[p].questionId # NoStr
        /\ FindOne(store, req[p].userId, TheDate, quizLevel) # 0

-----------------------------------------------------------------------------
(* Claims about GET /leaderboard and GET /total *)

IsLeaderboard(p) == pc[p] = "done" /\ resp[p].kind = "leaderboard"

\* the students that own a progress record
Owners == {store[i].studentId : i \in 1..Len(store)}

\* C7: the leaderboard holds the N students with records, the ranks 1..N
\* are given exactly once each, the score never rises as the rank rises,
\* and top3 is the entries of rank 1..min(3, N), whatever page, perPage and
\* focus the request carries.
C7_DenseRanks ==
    \A p \in Procs :
        IsLeaderboard(p) =>
            LET lb == resp[p].leaderboard
                N  == Len(lb)
                t3 == resp[p].top3
            IN  /\ N = Cardinality(Owners)
                /\ resp[p].totalCount = N
                /\ \A k \in 1..N : Cardinality({i \in 1..N : lb[i].rank = k}) = 1
                /\ \A i, j \in 1..N :
                    lb[i].rank < lb[j].rank => lb[i].score >= lb[j].score
                /\ Len(t3) = (IF N < 3 THEN N ELSE 3)
                /\ \A k \in 1..Len(t3) :
                    t3[k].rank = k /\ \E i \in 1..N : lb[i] = t3[k]

\* four ranked students, two of them with the same score, asked with focus
\* and a page that is no number
C7_Witness ==
    \E p \in Procs :
        /\ IsLeaderboard(p)
        /\ Len(resp[p].leaderboard) = 4
        /\ resp[p].leaderboard[2].score = resp[p].leaderboard[3].score
        /\ resp[p].leaderboard[1].score > resp[p].leaderboard[4].score
        /\ req[p].focus
        /\ req[p].page = TextParam

\* the rank of a student in a leaderboard array, 0 when the student is not in it
RankOf(lb, u) ==
    IF \E i \in 1..Len(lb) : lb[i].studentId = u
    THEN lb[CHOOSE i \in 1..Len(lb) : lb[i].studentId = u].rank
    ELSE 0

\* the perPage P >= 1 a request asks for: the number sent, 10 when none
\* is sent; 0 when the request sends something else
AskedPerPage(r) ==
    IF r.perPage.t = "absent" THEN 10
    ELSE IF r.perPage.t = "int" /\ r.perPage.n >= 1 THEN r.perPage.n
    ELSE 0

\* C8: with focus requested, a requester of rank R and perPage P >= 1, the
\* returned page is floor((R-1)/P)+1 and pageList holds the requester's
\* row, the only row flagged isYou, whatever page is requested.
C8_FocusPage ==
    \A p \in Procs :
        LET R == RankOf(resp[p].leaderboard, req[p].userId)
            P == AskedPerPage(req[p])
            rows == resp[p].pageList
        IN  (IsLeaderboard(p) /\ req[p].focus /\ req[p].userId # NoStr
                /\ R # 0 /\ P >= 1)
            =>
            /\ resp[p].page = Num(((R - 1) \div P) + 1)
            /\ Cardinality({i \in 1..Len(rows) : rows[i].isYou}) = 1
            /\ \A i \in 1..Len(rows) :
                rows[i].isYou <=>
                    (rows[i].studentId = req[p].userId /\ rows[i].rank = R)

\* the requester is ranked fourth, asks for two rows per page and a page
\* that is no number, and gets page 2
C8_Witness ==
    \E p \in Procs :
        /\ IsLeaderboard(p)
        /\ req[p].focus
        /\ req[p].page = TextParam
        /\ req[p].perPage = IntParam(2)
        /\ RankOf(resp[p].leaderboard, req[p].userId) = 4
        /\ resp[p].page = Num(2)

\* the page a request asks for: the number sent, 1 when none is sent
AskedPage(r) == IF r.page.t = "int" THEN r.page.n ELSE 1

ClampTo(n, lo, hi) == IF n < lo THEN lo ELSE IF n > hi THEN hi ELSE n

\* the page and the rows the claim describes, for a numeric page and perPage
ClampedPageAndSlice(p) ==
    LET N == resp[p].totalCount
        P == resp[p].perPage.n
        c == CeilDiv(N, P)
        page == resp[p].page.n
        rows == resp[p].pageList
        first == (page - 1) * P + 1
        last == IF page * P < N THEN page * P ELSE N
    IN  /\ page = ClampTo(AskedPage(req[p]), 1, IF c > 1 THEN c ELSE 1)
        /\ N > 0 =>
            /\ Len(rows) = last - first + 1
            /\ Len(rows) >= 1
            /\ \A i \in 1..Len(rows) : rows[i].rank = first + i - 1

NoFocus(p) ==
    ~req[p].focus \/ RankOf(resp[p].leaderboard, req[p].userId) = 0

\* C9: without focus, or for a requester without rank, the returned page
\* is the requested page clamped into [1, ceil(totalCount/perPage)], and on
\* a non-empty leaderboard pageList is the non-empty slice of the ranks
\* (page-1)*perPage+1 .. min(page*perPage, totalCount).
C9_ClampedPage ==
    \A p \in Procs :
        (IsLeaderboard(p) /\ NoFocus(p)) =>
            /\ resp[p].page.t = "num"
            /\ resp[p].perPage.t = "num"
            /\ ClampedPageAndSlice(p)

\* C9, for the requests whose page and perPage are numbers or absent: the
\* same statement holds.
C9_ClampedPageOfNumbers ==
    \A p \in Procs :
        (IsLeaderboard(p) /\ NoFocus(p)
            /\ req[p].page.t # "text" /\ req[p].perPage.t # "text")
        =>
            /\ resp[p].page.t = "num"
            /\ resp[p].perPage.t = "num"
            /\ ClampedPageAndSlice(p)

RECURSIVE OwnedTotal(_, _)
\* the sum of totalDiamonds over the first n records that student u owns
OwnedTotal(u, n) ==
    IF n = 0 THEN 0
    ELSE (IF store[n].studentId = u THEN store[n].totalDiamonds ELSE 0)
         + OwnedTotal(u, n - 1)

\* C10: the leaderboard has exactly one entry per student that owns a
\* progress record and no other entry; an entry's score is the sum of
\* totalDiamonds over the student's records, which is the total that
\* GET /total computes and returns for that student.
C10_ScoreIsTotal ==
    \A p \in Procs :
        /\ IsLeaderboard(p) =>
            LET lb == resp[p].leaderboard IN
            /\ {lb[i].studentId : i \in 1..Len(lb)} = Owners
            /\ Len(lb) = Cardinality(Owners)
            /\ \A i \in 1..Len(lb) :
                /\ lb[i].score = OwnedTotal(lb[i].studentId, Len(store))
                /\ lb[i].score = TotalValue(store, lb[i].studentId)
        /\ (pc[p] = "done" /\ resp[p].kind = "total" /\ resp[p].status = 200) =>
            resp[p].total = OwnedTotal(req[p].userId, Len(store))

\* a student without Student document, with two records, is on the leaderboard
C10_Witness ==
    \E p \in Procs :
        /\ IsLeaderboard(p)
        /\ \E i \in 1..Len(resp[p].leaderboard) :
            /\ resp[p].leaderboard[i].studentId = "s4"
            /\ resp[p].leaderboard[i].score = 40
            /\ Cardinality({k \in 1..Len(store) : store[k].studentId = "s4"}) = 2

-----------------------------------------------------------------------------
(* Claims about GET /leaderboard/summary/:id *)

IsSummary(p) ==
    pc[p] = "done" /\ resp[p].kind = "summary" /\ resp[p].status = 200

RECURSIVE MatchingTotal(_, _, _)
\* the sum of totalDiamonds over the first n records that student u owns
\* and whose level contains the word, letter case aside
MatchingTotal(u, word, n) ==
    IF n = 0 THEN 0
    ELSE (IF store[n].studentId = u /\ Includes(ToLowerCase(store[n].level), word)
          THEN store[n].totalDiamonds ELSE 0)
         + MatchingTotal(u, word, n - 1)

SummaryAsClaimed(p) ==
    LET u == req[p].id
        l == resp[p].levels
    IN  /\ l.beginner = MatchingTotal(u, StrBegin, Len(store))
        /\ l.intermediate = MatchingTotal(u, StrInter, Len(store))
        /\ l.advanced = MatchingTotal(u, StrAdvance, Len(store))
        /\ resp[p].overall = l.beginner + l.intermediate + l.advanced

\* C11: the summary gives, per bucket, the sum of totalDiamonds over all
\* records of the student whose level contains the bucket's word (letter
\* case aside), also when several level strings match one bucket, and
\* overall is the sum of the three values.
C11_SummaryLevels ==
    \A p \in Procs : IsSummary(p) => SummaryAsClaimed(p)

\* the student's records carry at most one level string per bucket
OneStringPerBucket(u) ==
    \A i, j \in 1..Len(store) :
        (/\ store[i].studentId = u /\ store[j].studentId = u
         /\ SummaryBucket(store[i].level) # "none"
         /\ SummaryBucket(store[i].level) = SummaryBucket(store[j].level))
        => store[i].level = store[j].level

\* C11, for a student whose records carry at most one level string per
\* bucket: the same statement holds.
C11_SummaryLevelsOneString ==
    \A p \in Procs :
        (IsSummary(p) /\ OneStringPerBucket(req[p].id)) => SummaryAsClaimed(p)

\* a summary and a leaderboard response for the same student
SamePerson(p, q) ==
    IsSummary(p) /\ IsLeaderboard(q) /\ req[q].userId = req[p].id

\* C12: over one store, the rank of the summary of student S equals the
\* userRank of the leaderboard asked by S, equal scores included, and is
\* null exactly when S owns no progress record.
C12_SameRank ==
    \A p, q \in Procs :
        /\ SamePerson(p, q) => resp[p].rank = resp[q].userRank
        /\ IsSummary(p) => (resp[p].rank = 0 <=> req[p].id \notin Owners)

\* no other student has the score of student u
NoTie(u) ==
    \A v \in Owners : v # u => TotalValue(store, v) # TotalValue(store, u)

\* C12, for a student whose score no other student has: the same statement
\* holds.
C12_SameRankWithoutTie ==
    \A p, q \in Procs :
        /\ (SamePerson(p, q) /\ NoTie(req[p].id)) => resp[p].rank = resp[q].userRank
        /\ IsSummary(p) => (resp[p].rank = 0 <=> req[p].id \notin Owners)

-----------------------------------------------------------------------------
(* Claims about GET /:date/:level and about identity *)

\* the first request of a behaviour was a fetch, it found the bucket empty
\* and has returned; the record it returns has no answer, so it is the
\* record this fetch created (the records of the initial stores that the
\* requester owns all hold an answer)
FirstFetchOfEmptyBucket(p) ==
    /\ pc[p] = "done"
    /\ req[p].kind = "fetch"
    /\ nreq = 1
    /\ resp[p].questions = {}
    /\ resp[p].progress.answers = <<>>

\* C13: the first fetch of a bucket without question, by a student without
\* record for the triple, creates the record; the stored record and the
\* progress object that this fetch returns both have completed = true, and
\* questions is empty.
C13_EmptyBucketFirstFetch ==
    \A p \in Procs :
        FirstFetchOfEmptyBucket(p) =>
            /\ ReqDoc(p).id # 0
            /\ ReqDoc(p).completed
            /\ resp[p].progress.completed

\* C13, for the stored record alone: the same statement holds.
C13_EmptyBucketStored ==
    \A p \in Procs :
        FirstFetchOfEmptyBucket(p) =>
            /\ ReqDoc(p).id # 0
            /\ ReqDoc(p).completed
            /\ resp[p].progress.id = ReqDoc(p).id

\* a request of the given kinds without identity is being served
Anonymous(r, kinds) == r.kind \in kinds /\ r.userId = NoStr

\* the steps of such a request leave the store alone, and its response
\* is a client error
RejectedUntouched(p, kinds) ==
    Anonymous(req'[p], kinds) =>
        /\ store' = store
        /\ pc'[p] = "done" => resp'[p].status \in 400..499

\* C14: a GET /total or POST /answer request without student identity is
\* answered with a client error and creates or changes no progress record.
C14_NoIdentityRejected ==
    [][ \A p \in Procs : RejectedUntouched(p, {"total", "answer"}) ]_vars

\* C14, for GET /total alone: the same statement holds.
C14_NoIdentityTotalRejected ==
    [][ \A p \in Procs : RejectedUntouched(p, {"total"}) ]_vars

-----------------------------------------------------------------------------
(* Claims about concurrent requests *)

SameTriple(a, b) ==
    a.studentId = b.studentId /\ a.date = b.date /\ a.level = b.level

\* C15: in every reachable state the store holds at most one progress
\* record per (studentId, date, level), whatever the interleaving of the
\* first fetches and first submissions of a student for the triple.
C15_OneRecordPerTriple ==
    \A i, j \in 1..Len(store) : SameTriple(store[i], store[j]) => i = j

-----------------------------------------------------------------------------
(* Claims about the level of a submission *)

\* the reward table's row of the bucket the summary route puts a level in
SubstringRow(level) ==
    LET b == SummaryBucket(level) IN
    IF b = "beginner" THEN <<10, 5, 3, 0>>
    ELSE IF b = "intermediate" THEN <<20, 15, 10, 5>>
    ELSE IF b = "advanced" THEN <<30, 25, 20, 10>>
    ELSE <<10, 0, 0, 0>>

\* a correct submission has computed its diamonds
Rewarded(p) ==
    /\ pc[p] \in {"a_set", "a_after", "a_count", "a_save"}
    /\ loc[p].attemptsNow >= 1
    /\ req[p].isCorrect = "true"

RewardOfSubstringRow(p) ==
    loc[p].diamonds =
        SubstringRow(req[p].level)[IF loc[p].attemptsNow >= 4 THEN 4
                                   ELSE loc[p].attemptsNow]

\* C16: a correct answer under a level that contains "begin", "inter" or
\* "advance" (letter case aside) is rewarded from the beginner,
\* intermediate or advanced row, the bucket the summary puts that level in.
C16_SubstringLevels ==
    \A p \in Procs : Rewarded(p) => RewardOfSubstringRow(p)

\* C16, for the levels that are a row's name up to letter case: the same
\* statement holds.
C16_ExactLevelNames ==
    \A p \in Procs :
        (Rewarded(p) /\ ToLowerCase(req[p].level) \in
            {StrBeginner, StrIntermediate, StrAdvance, StrAdvanced})
        => RewardOfSubstringRow(p)

-----------------------------------------------------------------------------
(* Claims about the attempts counter *)

\* the attempts stored for a question of a triple, as the handlers read
\* them: the first entry of the question in the record the lookup by
\* triple returns; 0 when there is none
StoredAttempts(st, u, d, l, q) ==
    LET doc == FoundDoc(st, u, d, l)
        k == IF doc.id = 0 THEN 0 ELSE EntryIndex(doc, q)
    IN  IF k = 0 THEN 0 ELSE doc.answers[k].attempts

\* the submissions for question q that perform their increment in this step
Incrementing(u, d, l, q) ==
    {p \in Procs :
        /\ pc[p] = "a_inc" /\ pc'[p] # "a_inc"
        /\ req[p].userId = u /\ req[p].date = d /\ req[p].level = l
        /\ req[p].questionId = q}

\* C17: no attempt is lost or counted twice.  Every submission that is not
\* blocked returns after exactly one increment of its own; each step
\* raises the attempts stored for a question by the number of increments
\* the step performs for it, so that N returned submissions leave the
\* counter N higher; and no entry's attempts ever decreases.
\* the step counts the increments it performs, no more and no less
StepCountsAttempts ==
    /\ \A u \in Requesters, q \in QIds :
        StoredAttempts(store', u, TheDate, quizLevel, q)
          = StoredAttempts(store, u, TheDate, quizLevel, q)
            + Cardinality(Incrementing(u, TheDate, quizLevel, q))
    /\ \A p \in Procs :
        (pc[p] # "done" /\ pc'[p] = "done" /\ req'[p].kind = "answer"
            /\ resp'[p].status = 200 /\ ~resp'[p].blocked)
        => pc[p] = "a_save"
    /\ \A e \in Entries(store) :
        /\ e \in Entries(store')
        /\ EntryAt(store', e).attempts >= EntryAt(store, e).attempts

C17_AttemptsCounted == [][StepCountsAttempts]_vars

\* C17, while the store holds one record per triple: the same statement
\* holds.
C17_AttemptsCountedOneRecord ==
    [][C15_OneRecordPerTriple' => StepCountsAttempts]_vars

\* a submission has read its attempt number back and not yet returned
HasAttemptNumber(p) ==
    /\ pc[p] \in {"a_set", "a_after", "a_count", "a_save"}
    /\ req[p].kind = "answer"

SameQuestion(p, q) ==
    /\ req[p].userId = req[q].userId /\ req[p].date = req[q].date
    /\ req[p].level = req[q].level /\ req[p].questionId = req[q].questionId

\* C18: the attempt number a submission scores with is the counter value
\* its own increment produced, so two submissions on the same question
\* that are under way together never score with the same attempt number.
C18_DistinctAttemptNumbers ==
    \A p, q \in Procs :
        (p # q /\ HasAttemptNumber(p) /\ HasAttemptNumber(q) /\ SameQuestion(p, q))
        => loc[p].attemptsNow # loc[q].attemptsNow

-----------------------------------------------------------------------------
(* Claims about the answer entries under concurrency *)

\* C19: in every reachable state the answers of a progress record hold at
\* most one entry per questionId, also after two submissions for a
\* question without entry have both run the check-then-insert step.
C19_OneEntryPerQuestion ==
    \A i \in 1..Len(store) :
        \A j, k \in 1..Len(store[i].answers) :
            store[i].answers[j].questionId = store[i].answers[k].questionId
            => j = k

\* C20: from a state in which a record's stored completed flag is true, no
\* step of any submission, one that read completed = false earlier
\* included, changes the attempts, earnedDiamonds or isCorrect of an entry
\* of that record.
C20_CompletedFreezesEntries ==
    [][ \A i \in 1..Len(store) :
            store[i].completed =>
                \A j \in 1..Len(store[i].answers) :
                    /\ j <= Len(store'[i].answers)
                    /\ store'[i].answers[j] = store[i].answers[j]
      ]_vars

-----------------------------------------------------------------------------
(* Claims about rewards and completion over time *)

\* the step raises the earnedDiamonds of no entry that is already correct
NoRewardRaised ==
    \A e \in Entries(store) :
        EntryAt(store, e).isCorrect =>
            /\ e \in Entries(store')
            /\ EntryAt(store', e).earnedDiamonds <= EntryAt(store, e).earnedDiamonds

\* C21: once an entry has isCorrect = true, no step of a later submission
\* raises its earnedDiamonds: a correct re-submission overwrites it with a
\* lower or equal value, one request at a time and in every interleaving
\* of concurrent submissions.
C21_RewardNeverRaised == [][NoRewardRaised]_vars

\* C22: the completed flag of a progress record is monotonic: once stored
\* as true, no step of a fetch, of a submission or of the quiz routes
\* stores it as false again.
C22_CompletedMonotonic ==
    [][ \A i \in 1..Len(store) :
            store[i].completed =>
                /\ i <= Len(store')
                /\ store'[i].completed
      ]_vars

====
